---- MODULE Spec2Model ----
(***************************************************************************)
(* Model of app/server.py: an HTTP service that holds a process-wide       *)
(* serving state (the loaded model handle and the served version) and      *)
(* exposes health, predict, get_model_version and set_model_version.       *)
(* Handlers are plain `def` endpoints, so the server runs each request on  *)
(* a worker thread; a step of the model is one access to the module        *)
(* globals, and workers interleave between steps.                          *)
(***************************************************************************)
EXTENDS Naturals, Sequences, FiniteSets, TLC

\* ---- bounds of the model ----
NumProcs == 2
MaxSamples == 2

Procs == 1..NumProcs

\* ---- hard-coded config ----
MODEL_NAME == "iris-classifier"
MODEL_VERSION == "1"

\* Version strings a client may send; the registry holds only some of them.
Versions == {"1", "2", "3"}
Registered == {"1", "2"}

\* Measurements in tenths of a centimetre (all >= 0, as IrisSample requires).
Samples == {<<51, 35, 14, 2>>, <<67, 31, 47, 15>>}

RECURSIVE SeqsUpTo(_)
SeqsUpTo(n) ==
    IF n = 0 THEN {<<>>}
    ELSE LET shorter == SeqsUpTo(n - 1)
         IN shorter \cup {Append(s, x) : s \in {t \in shorter : Len(t) = n - 1}, x \in Samples}

Batches == SeqsUpTo(MaxSamples)

IRIS_LABELS == (0 :> "setosa") @@ (1 :> "versicolor") @@ (2 :> "virginica")

\* f"models:/{MODEL_NAME}/{version}"
RegistryUri(version) == "models:/" \o MODEL_NAME \o "/" \o version

NoHandle == [uri |-> ""]
NoReq == [kind |-> "none"]
NoResp == [op |-> "none", status |-> 0]
NoExc == ""

\* Texts of the exceptions load_model raises.
Causes == {"RESOURCE_DOES_NOT_EXIST", "connection refused"}

\* What mlflow.pyfunc.load_model can do for a version: return a handle, or
\* raise with some cause text.
LoadOutcomes(version) ==
    IF version \in Registered
    THEN {"ok", "connection refused"}
    ELSE {"RESOURCE_DOES_NOT_EXIST"}

VARIABLES
    MODEL_URI,               \* module global, line 13
    model,                   \* module global, line 14
    CURRENT_SERVED_VERSION,  \* module global, line 17
    pc,                      \* per worker: where it is in its handler
    req,                     \* per worker: the request body it was given
    loaded,                  \* per worker: local `loaded` of set_model_version
    exc,                     \* per worker: local `e` of set_model_version
    invoked,                 \* per worker: the handle its last request ran inference on
    resp                     \* per worker: the last response it sent

vars == <<MODEL_URI, model, CURRENT_SERVED_VERSION, pc, req, loaded, exc, invoked, resp>>

globals == <<MODEL_URI, model, CURRENT_SERVED_VERSION>>

\* mlflow.pyfunc.load_model(uri): the handle of the artifact stored at uri.
load_model(uri) == [uri |-> uri]

load_model_for_version(version) == load_model(RegistryUri(version))

Init ==
    /\ MODEL_URI = RegistryUri(MODEL_VERSION)
    /\ model = load_model(MODEL_URI)
    /\ CURRENT_SERVED_VERSION = MODEL_VERSION
    /\ pc = [p \in Procs |-> "idle"]
    /\ req = [p \in Procs |-> NoReq]
    /\ loaded = [p \in Procs |-> NoHandle]
    /\ exc = [p \in Procs |-> NoExc]
    /\ invoked = [p \in Procs |-> NoHandle]
    /\ resp = [p \in Procs |-> NoResp]

\* ---- GET /health ----
\* {"status": "ok", "model_uri": MODEL_URI}
HealthBody == [status |-> "ok", model_uri |-> MODEL_URI]

health(p) ==
    /\ pc[p] = "idle"
    /\ req' = [req EXCEPT ![p] = NoReq]
    /\ invoked' = [invoked EXCEPT ![p] = NoHandle]
    /\ resp' = [resp EXCEPT ![p] =
                  [op |-> "health", status |-> 200,
                   body |-> HealthBody]]
    /\ UNCHANGED <<globals, pc, loaded, exc>>

\* ---- POST /predict ----
\* A plausible slip when filling in the TODO: reloading the default model.
predict_reloads_default(p, samples) ==
    /\ pc[p] = "idle"
    /\ req' = [req EXCEPT ![p] = [kind |-> "predict", samples |-> samples]]
    /\ model' = load_model(MODEL_URI)
    /\ invoked' = [invoked EXCEPT ![p] = NoHandle]
    /\ resp' = [resp EXCEPT ![p] =
                  [op |-> "predict", status |-> 200,
                   body |-> [class_id |-> <<>>, class_label |-> <<>>]]]
    /\ UNCHANGED <<MODEL_URI, CURRENT_SERVED_VERSION, pc, loaded, exc>>

\* PredictResponse(class_id=[], class_label=[]): the body never reads `model`.
predict(p, samples) ==
    /\ pc[p] = "idle"
    /\ req' = [req EXCEPT ![p] = [kind |-> "predict", samples |-> samples]]
    /\ invoked' = [invoked EXCEPT ![p] = NoHandle]
    /\ resp' = [resp EXCEPT ![p] =
                  [op |-> "predict", status |-> 200,
                   body |-> [class_id |-> <<>>, class_label |-> <<>>]]]
    /\ UNCHANGED <<globals, pc, loaded, exc>>

\* ---- GET /model/version ----
\* {"model_name": MODEL_NAME, "version": CURRENT_SERVED_VERSION}
GetModelVersionBody == [model_name |-> MODEL_NAME, version |-> CURRENT_SERVED_VERSION]

get_model_version(p) ==
    /\ pc[p] = "idle"
    /\ req' = [req EXCEPT ![p] = NoReq]
    /\ invoked' = [invoked EXCEPT ![p] = NoHandle]
    /\ resp' = [resp EXCEPT ![p] =
                  [op |-> "get_model_version", status |-> 200,
                   body |-> GetModelVersionBody]]
    /\ UNCHANGED <<globals, pc, loaded, exc>>

\* ---- POST /model/version ----
\* f"Could not load version '{req.version}': {e}", as its pieces in order.
FormatDetail(version, cause) == <<"Could not load version '", version, "': ", cause>>

\* A plausible slip: recording the requested version before the load is tried.
set_model_version_begin_eager(p, version) ==
    /\ pc[p] = "idle"
    /\ pc' = [pc EXCEPT ![p] = "load"]
    /\ req' = [req EXCEPT ![p] = [kind |-> "set_model_version", version |-> version]]
    /\ CURRENT_SERVED_VERSION' = version
    /\ loaded' = [loaded EXCEPT ![p] = NoHandle]
    /\ exc' = [exc EXCEPT ![p] = NoExc]
    /\ invoked' = [invoked EXCEPT ![p] = NoHandle]
    /\ resp' = [resp EXCEPT ![p] = NoResp]
    /\ UNCHANGED <<MODEL_URI, model>>

\* The request arrives and the handler enters its try block.
set_model_version_begin(p, version) ==
    /\ pc[p] = "idle"
    /\ pc' = [pc EXCEPT ![p] = "load"]
    /\ req' = [req EXCEPT ![p] = [kind |-> "set_model_version", version |-> version]]
    /\ loaded' = [loaded EXCEPT ![p] = NoHandle]
    /\ exc' = [exc EXCEPT ![p] = NoExc]
    /\ invoked' = [invoked EXCEPT ![p] = NoHandle]
    /\ resp' = [resp EXCEPT ![p] = NoResp]
    /\ UNCHANGED globals

\* loaded = _load_model_for_version(req.version), returning normally.
set_model_version_load_ok(p) ==
    /\ pc[p] = "load"
    /\ "ok" \in LoadOutcomes(req[p].version)
    /\ loaded' = [loaded EXCEPT ![p] = load_model_for_version(req[p].version)]
    /\ pc' = [pc EXCEPT ![p] = "assign_model"]
    /\ UNCHANGED <<globals, req, exc, invoked, resp>>

\* loaded = _load_model_for_version(req.version), raising: except Exception as e.
set_model_version_load_fail(p, cause) ==
    /\ pc[p] = "load"
    /\ cause \in LoadOutcomes(req[p].version) \ {"ok"}
    /\ exc' = [exc EXCEPT ![p] = cause]
    /\ pc' = [pc EXCEPT ![p] = "raise"]
    /\ UNCHANGED <<globals, req, loaded, invoked, resp>>

\* A plausible slip: reporting the failure as a server error without the cause.
set_model_version_raise_500(p) ==
    /\ pc[p] = "raise"
    /\ resp' = [resp EXCEPT ![p] =
                  [op |-> "set_model_version", status |-> 500,
                   body |-> [detail |-> <<"Could not load version '", req[p].version, "'">>]]]
    /\ exc' = [exc EXCEPT ![p] = NoExc]
    /\ pc' = [pc EXCEPT ![p] = "idle"]
    /\ UNCHANGED <<globals, req, loaded, invoked>>

\* raise HTTPException(status_code=404, detail=...)
set_model_version_raise(p) ==
    /\ pc[p] = "raise"
    /\ resp' = [resp EXCEPT ![p] =
                  [op |-> "set_model_version", status |-> 404,
                   body |-> [detail |-> FormatDetail(req[p].version, exc[p])]]]
    /\ exc' = [exc EXCEPT ![p] = NoExc]
    /\ pc' = [pc EXCEPT ![p] = "idle"]
    /\ UNCHANGED <<globals, req, loaded, invoked>>

\* model = loaded
set_model_version_assign_model(p) ==
    /\ pc[p] = "assign_model"
    /\ model' = loaded[p]
    /\ pc' = [pc EXCEPT ![p] = "assign_version"]
    /\ UNCHANGED <<MODEL_URI, CURRENT_SERVED_VERSION, req, loaded, exc, invoked, resp>>

\* A plausible slip: without the `global` declaration the assignment binds a local.
set_model_version_assign_version_local(p) ==
    /\ pc[p] = "assign_version"
    /\ pc' = [pc EXCEPT ![p] = "return"]
    /\ UNCHANGED <<globals, req, loaded, exc, invoked, resp>>

\* CURRENT_SERVED_VERSION = req.version
set_model_version_assign_version(p) ==
    /\ pc[p] = "assign_version"
    /\ CURRENT_SERVED_VERSION' = req[p].version
    /\ pc' = [pc EXCEPT ![p] = "return"]
    /\ UNCHANGED <<MODEL_URI, model, req, loaded, exc, invoked, resp>>

\* return {"model_name": MODEL_NAME, "version": CURRENT_SERVED_VERSION}
set_model_version_return(p) ==
    /\ pc[p] = "return"
    /\ resp' = [resp EXCEPT ![p] =
                  [op |-> "set_model_version", status |-> 200,
                   body |-> GetModelVersionBody]]
    /\ loaded' = [loaded EXCEPT ![p] = NoHandle]
    /\ pc' = [pc EXCEPT ![p] = "idle"]
    /\ UNCHANGED <<globals, req, exc, invoked>>

\* A worker is inside set_model_version.
Switching(p) == pc[p] # "idle"

Next ==
    \E p \in Procs :
        \/ health(p)
        \/ \E samples \in Batches : predict(p, samples)
        \/ get_model_version(p)
        \/ \E version \in Versions : set_model_version_begin(p, version)
        \/ set_model_version_load_ok(p)
        \/ \E cause \in Causes :
              set_model_version_load_fail(p, cause)
        \/ set_model_version_raise(p)
        \/ set_model_version_assign_model(p)
        \/ set_model_version_assign_version(p)
        \/ set_model_version_return(p)

\* Every worker thread: requests arrive and handlers interleave freely.
Spec == Init /\ [][Next]_vars

\* The same service when clients issue at most one set_model_version call at a
\* time; health, predict and get_model_version still run between its steps.
NextSerial ==
    \E p \in Procs :
        \/ health(p)
        \/ \E samples \in Batches : predict(p, samples)
        \/ get_model_version(p)
        \/ \E version \in Versions :
              /\ \A q \in Procs : ~Switching(q)
              /\ set_model_version_begin(p, version)
        \/ set_model_version_load_ok(p)
        \/ \E cause \in Causes :
              set_model_version_load_fail(p, cause)
        \/ set_model_version_raise(p)
        \/ set_model_version_assign_model(p)
        \/ set_model_version_assign_version(p)
        \/ set_model_version_return(p)

SpecSerial == Init /\ [][NextSerial]_vars

(***************************************************************************)
(* Properties                                                              *)
(***************************************************************************)

\* Worker p takes a step of a handler that runs in one step (health, predict
\* or get_model_version): it was idle, is idle, and has a new request/response.
OneStepRequest(p) ==
    /\ pc[p] = "idle"
    /\ pc'[p] = "idle"
    /\ <<req[p], resp[p]>> # <<req'[p], resp'[p]>>

SuccessBody(version) == [model_name |-> MODEL_NAME, version |-> version]

InSeq(x, s) == \E i \in 1..Len(s) : s[i] = x

\* C1: when set_model_version(v) loads successfully and no other
\* set_model_version call runs during it, then at its return the call answers
\* {model_name, version: v} and get_model_version answers the same.
C1_SetThenGet ==
    [][\A p \in Procs :
          (pc[p] = "return" /\ pc'[p] = "idle") =>
              /\ resp'[p].status = 200
              /\ resp'[p].body = SuccessBody(req[p].version)
              /\ GetModelVersionBody' = SuccessBody(req[p].version)]_vars

C1_Witness ==
    \E p, q \in Procs :
        /\ pc[p] = "idle"
        /\ resp[p].op = "set_model_version"
        /\ resp[p].status = 200
        /\ req[p].version = "2"
        /\ resp[q].op = "get_model_version"
        /\ resp[q].body.version = "2"

\* C2: no step of a set_model_version call whose load raises (entering the
\* handler, the failing load, raising the HTTP error) changes the model handle
\* or CURRENT_SERVED_VERSION, so get_model_version answers as before.
C2_FailedSwitchKeepsState ==
    [][\A p \in Procs :
          (\/ (pc[p] = "idle" /\ pc'[p] = "load")
           \/ (pc[p] = "load" /\ pc'[p] = "raise")
           \/ (pc[p] = "raise" /\ pc'[p] = "idle")) =>
              /\ model' = model
              /\ CURRENT_SERVED_VERSION' = CURRENT_SERVED_VERSION
              /\ GetModelVersionBody' = GetModelVersionBody]_vars

C2_Witness ==
    \E p \in Procs :
        /\ pc[p] = "idle"
        /\ resp[p].op = "set_model_version"
        /\ resp[p].status = 404
        /\ req[p].version = "3"
        /\ CURRENT_SERVED_VERSION = "2"
        /\ model = load_model_for_version("2")

\* C3: in every state another request can observe, the model handle is the
\* one loaded for the version CURRENT_SERVED_VERSION names.
C3_NoTornPair == model = load_model_for_version(CURRENT_SERVED_VERSION)

\* C4: every predict call runs inference on the handle that is the current
\* value of the global `model` at the moment of the call.
C4_PredictUsesCurrentHandle ==
    [][\A p \in Procs :
          (OneStepRequest(p) /\ resp'[p].op = "predict") => invoked'[p] = model]_vars

\* C5: a successful predict on a non-empty batch answers one class id and one
\* label per sample, each id in {0,1,2} and each label its IRIS_LABELS entry.
C5_PredictShape ==
    \A p \in Procs :
        (resp[p].op = "predict" /\ resp[p].status = 200 /\ req[p].samples # <<>>) =>
            /\ Len(resp[p].body.class_id) = Len(req[p].samples)
            /\ Len(resp[p].body.class_label) = Len(req[p].samples)
            /\ \A i \in 1..Len(resp[p].body.class_id) :
                  /\ resp[p].body.class_id[i] \in {0, 1, 2}
                  /\ resp[p].body.class_label[i] = IRIS_LABELS[resp[p].body.class_id[i]]

\* C6: predict on an empty samples list never answers with success.
C6_EmptyBatchRejected ==
    \A p \in Procs :
        (resp[p].op = "predict" /\ req[p].samples = <<>>) => resp[p].status # 200

\* C7: whenever no switch is in progress, health reports the registry URI of
\* the version currently served.
C7_HealthReportsActiveUri ==
    (\A p \in Procs : ~Switching(p)) =>
        HealthBody = [status |-> "ok", model_uri |-> RegistryUri(CURRENT_SERVED_VERSION)]

\* C8: a load that raises is never swallowed: the handler goes on to raise,
\* and what it sends is a 404 whose detail holds the requested version and the
\* cause; a success response is only ever sent for a version that loaded.
C8_LoadFailureIs404 ==
    /\ [](\A p \in Procs :
            /\ exc[p] # NoExc => pc[p] = "raise"
            /\ (resp[p].op = "set_model_version" /\ resp[p].status = 200) =>
                  "ok" \in LoadOutcomes(req[p].version))
    /\ [][\A p \in Procs :
            /\ (pc[p] = "load" /\ pc'[p] # "load") =>
                  \/ pc'[p] = "assign_model" /\ exc'[p] = NoExc
                  \/ pc'[p] = "raise" /\ exc'[p] \in Causes
            /\ (pc[p] = "raise" /\ pc'[p] # "raise") =>
                  /\ pc'[p] = "idle"
                  /\ resp'[p].op = "set_model_version"
                  /\ resp'[p].status = 404
                  /\ InSeq(req[p].version, resp'[p].body.detail)
                  /\ InSeq(exc[p], resp'[p].body.detail)]_vars

C8_Witness ==
    \E p \in Procs :
        /\ pc[p] = "idle"
        /\ resp[p].op = "set_model_version"
        /\ resp[p].status = 404
        /\ resp[p].body.detail =
              <<"Could not load version '", "2", "': ", "connection refused">>

\* C9: once every set_model_version call has returned, the model handle is
\* the one loaded for the version CURRENT_SERVED_VERSION names.
C9_QuiescentStateIsServing ==
    (\A p \in Procs : ~Switching(p)) =>
        model = load_model_for_version(CURRENT_SERVED_VERSION)

\* C10: the service starts with the handle of version "1" and
\* CURRENT_SERVED_VERSION = "1"; health, predict and get_model_version never
\* change either, and any change is made by a worker inside set_model_version.
C10_OnlySwitchMutates ==
    /\ model = [uri |-> "models:/iris-classifier/1"]
    /\ CURRENT_SERVED_VERSION = "1"
    /\ [][/\ \A p \in Procs :
               OneStepRequest(p) =>
                   model' = model /\ CURRENT_SERVED_VERSION' = CURRENT_SERVED_VERSION
          /\ (model' # model \/ CURRENT_SERVED_VERSION' # CURRENT_SERVED_VERSION) =>
               \E p \in Procs : pc[p] \in {"assign_model", "assign_version"} /\ pc'[p] # pc[p]]_vars

C10_Witness ==
    \E p, q \in Procs :
        /\ p # q
        /\ resp[p].op = "predict"
        /\ req[p].samples # <<>>
        /\ resp[q].op = "health"
        /\ CURRENT_SERVED_VERSION = "2"
        /\ model = load_model_for_version("2")

====
